---- MODULE Spec2Model ----
(***************************************************************************)
(* A model of the WebSocket <-> language-server proxy of                   *)
(* src/extension/src/lsp-conversion.ts: one client connection (a session), *)
(* its initialize interception, its cleanup list, the process-wide signal  *)
(* handlers, and the two URI rewrite rules.                                *)
(***************************************************************************)
EXTENDS Integers, Sequences, FiniteSets, TLC

(***************************************************************************)
(* Bounds of the model.                                                    *)
(***************************************************************************)
\* client -> proxy messages per session
MaxClientMsgs == 2
\* initialize requests per session
MaxInits == 1
\* worker -> proxy messages per session
MaxWorkerMsgs == 2
\* package.json files the glob may find
MaxManifests == 2
\* cleanup actions that may throw or reject, per session
MaxFailures == 1
\* signals that arrive while the process runs
MaxSignals == 1
\* segments of a fragment or of a path below the extraction root
MaxSegs == 2
\* properties of one object of a message body
MaxFields == 2
\* nesting depth of a message body
MaxDepth == 2

(***************************************************************************)
(* Strings.  A path or a fragment is the sequence of its "/"-separated     *)
(* segments: "src/a.ts" is <<"src", "a.ts">>, "" is <<>>, "src/" is        *)
(* <<"src", "">> and "/src" is <<"", "src">>.                              *)
(***************************************************************************)
Segments == {"src", "a.ts", "", ".", "..", "@t", "%40t", "a%20b", "a b", "%2F"}

\* decodeURIComponent on one segment (inside fileURLToPath)
Decode(s) ==
    CASE s = "%40t"  -> "@t"
      [] s = "a%20b" -> "a b"
      [] s = "%2F"   -> "/"
      [] OTHER       -> s

\* the percent-encoding the URL pathname setter applies to one segment
PathEncode(s) ==
    CASE s = "a b" -> "a%20b"
      [] OTHER     -> s

\* the percent-encoding the URL hash setter applies to one segment
HashEncode(s) ==
    CASE s = "a b" -> "a%20b"
      [] OTHER     -> s

DecodeAll(segs) == [i \in 1..Len(segs) |-> Decode(segs[i])]

PathEncodeAll(segs) == [i \in 1..Len(segs) |-> PathEncode(segs[i])]

HashEncodeAll(segs) == [i \in 1..Len(segs) |-> HashEncode(segs[i])]

Last(s) == s[Len(s)]

Front(s) == SubSeq(s, 1, Len(s) - 1)

\* the segments of a path with "", "." and ".." resolved against the root
RECURSIVE Resolve(_, _)
Resolve(segs, acc) ==
    IF segs = <<>> THEN acc
    ELSE LET s == Head(segs) IN
         CASE s = "" \/ s = "." -> Resolve(Tail(segs), acc)
           [] s = ".."          -> Resolve(Tail(segs), IF acc = <<>> THEN acc ELSE Front(acc))
           [] OTHER             -> Resolve(Tail(segs), Append(acc, s))

\* path.posix.normalize of an absolute path: a trailing "/" is kept
Normalize(segs) ==
    LET r == Resolve(segs, <<>>)
    IN  IF segs # <<>> /\ Last(segs) = "" /\ r # <<>> THEN Append(r, "") ELSE r

\* path.posix.join(root, rel) for an absolute root: empty arguments are skipped
PosixJoin(root, rel) == Normalize(root \o rel)

RECURSIVE CommonPrefix(_, _)
CommonPrefix(a, b) ==
    IF a = <<>> \/ b = <<>> \/ Head(a) # Head(b) THEN 0
    ELSE 1 + CommonPrefix(Tail(a), Tail(b))

\* a path.relative that returns the resolved target as it is
PathRelativeAbsolute(from, to) == Resolve(to, <<>>)

\* path.relative(from, to) for absolute paths: both are resolved first
PathRelative(from, to) ==
    LET f == Resolve(from, <<>>)
        t == Resolve(to, <<>>)
        n == CommonPrefix(f, t)
    IN  [i \in 1..(Len(f) - n) |-> ".."] \o SubSeq(t, n + 1, Len(t))

(***************************************************************************)
(* URLs.  A parsed URL is a record; an exception is a record with the      *)
(* field "throws".                                                         *)
(***************************************************************************)
Url(protocol, hostname, pathname, hash) ==
    [protocol |-> protocol, hostname |-> hostname, pathname |-> pathname, hash |-> hash]

\* an Error object: its message and the type and value of its "code" property
Throw(msg, codeType, code) == [throws |-> msg, codeType |-> codeType, code |-> code]

\* an Error with no "code" property
PlainError(msg) == Throw(msg, "undefined", 0)

NodeError(msg, code) == Throw(msg, "string", code)

IsThrow(x) == "throws" \in DOMAIN x

\* the path of a parsed URL: "." and ".." are resolved, empty segments kept;
\* a final "." or ".." leaves a trailing "/"
RECURSIVE UrlPath(_, _)
UrlPath(segs, acc) ==
    IF segs = <<>> THEN acc
    ELSE LET s == Head(segs)
             last == Len(segs) = 1
             up == IF acc = <<>> THEN acc ELSE Front(acc)
         IN  CASE s = "."  -> UrlPath(Tail(segs), IF last THEN Append(acc, "") ELSE acc)
               [] s = ".." -> UrlPath(Tail(segs), IF last THEN Append(up, "") ELSE up)
               [] OTHER    -> UrlPath(Tail(segs), Append(acc, PathEncode(s)))

\* new URL(str): str is given by its parts; a string that is no URL throws.
\* The parser percent-encodes what the path and the fragment may not hold.
ParseUrl(raw) ==
    IF "invalid" \in DOMAIN raw THEN NodeError("Invalid URL", "ERR_INVALID_URL")
    ELSE Url(raw.protocol, raw.hostname, UrlPath(raw.pathname, <<>>),
             HashEncodeAll(raw.hash))

\* url.pathToFileURL(extractPath)
PathToFileURL(p) == Url("file:", "", PathEncodeAll(Resolve(p, <<>>)), <<>>)

\* url.fileURLToPath(fileUri) on a POSIX host
FileURLToPath(u) ==
    IF u.protocol # "file:"
    THEN NodeError("The URL must be of scheme file", "ERR_INVALID_URL_SCHEME")
    ELSE IF u.hostname # ""
    THEN NodeError("File URL host must be localhost or empty", "ERR_INVALID_FILE_URL_HOST")
    ELSE IF \E i \in 1..Len(u.pathname) : u.pathname[i] = "%2F"
    THEN NodeError("File URL path must not include encoded / characters",
                   "ERR_INVALID_FILE_URL_PATH")
    ELSE [path |-> DecodeAll(u.pathname)]

(***************************************************************************)
(* State of the process and of one session (one WebSocket connection).     *)
(***************************************************************************)
VARIABLES
    zipRootUri,            \* let zipRootUri: <<>> while undefined, else <<url>>
    fileRootUri,           \* let fileRootUri: <<>> while undefined, else <<url>>
    tempDir,               \* let tempDir: <<>> while undefined, else the path
    extractPath,           \* let extractPath: <<>> while undefined, else the path
    connectionCleanupFns,  \* the session's array of cleanup actions
    globalCleanupFns,      \* the process-wide Set of cleanup functions
    requestSpans,          \* keys of the Map of pending spans
    finishedSpans,         \* ids whose span had finish() called
    handlers,              \* the suspended initialize handlers, by arrival number
    runs,                  \* the cleanupAll(connectionCleanupFns) calls, by caller
    toWorker,              \* what languageServerConnection.writer was given, in order
    toClient,              \* what webSocketConnection.writer was given, in order
    clientSeq,             \* client messages received so far
    initSeq,               \* initialize requests received so far
    fromWorker,            \* what the worker has emitted, in order
    workerRunning,         \* the language server child process is alive
    dirs,                  \* temporary directories that exist on disk
    closed,                \* the WebSocket 'close' event was emitted
    signalled,             \* how many of the signals have arrived (each is handled once)
    exited,                \* process.exit(0) was called
    failures,              \* cleanup actions that threw or rejected so far
    budget,                \* how much the environment does: messages, signals, failures
    probe                  \* an address taken through the rewrite rules

vars == <<zipRootUri, fileRootUri, tempDir, extractPath, connectionCleanupFns,
          globalCleanupFns, requestSpans, finishedSpans, handlers, runs, toWorker,
          toClient, clientSeq, initSeq, fromWorker, workerRunning, dirs, closed,
          signalled, exited, failures, budget, probe>>

Signals == {"SIGHUP", "SIGINT", "SIGTERM"}

\* the callers of cleanupAll(connectionCleanupFns): the 'close' listener
\* (CloseRun) and, through cleanupConnection, the once-handler of each signal:
\* k is the handler of the k-th signal to arrive, whichever it is
CloseRun == 0

SignalRuns == 1..Cardinality(Signals)

RunIds == {CloseRun} \cup SignalRuns

\* ErrorCodes.UnknownErrorCode of vscode-jsonrpc
UnknownErrorCode == -32001

(***************************************************************************)
(* The two rewrite rules of the session and rewriteUris.                   *)
(***************************************************************************)
\* transformZipToFileUri with the value fileRootUri holds when it is called
ZipToFileUri(fileRoot, zipUri) ==
    IF fileRoot = <<>>
    THEN PlainError("Cannot read property 'href' of undefined")
    ELSE LET root == fileRoot[1]
         IN  Url(root.protocol, root.hostname,
                 PathEncodeAll(PosixJoin(root.pathname, zipUri.hash)), root.hash)

TransformZipToFileUri(zipUri) == ZipToFileUri(fileRootUri, zipUri)

TransformFileToZipUri(fileUri) ==
    LET filePath == FileURLToPath(fileUri)
    IN  IF IsThrow(filePath) THEN filePath
        ELSE IF zipRootUri = <<>>
        THEN PlainError("Cannot read property 'href' of undefined")
        ELSE IF extractPath = <<>>
        THEN NodeError("The \"from\" argument must be of type string", "ERR_INVALID_ARG_TYPE")
        ELSE LET root == zipRootUri[1]
             IN  Url(root.protocol, root.hostname, root.pathname,
                     HashEncodeAll(PathRelative(extractPath[1], filePath.path)))

\* rewriteUris(message, transform) on a message with at most one uri property:
\* the message with the property rewritten, or the exception.  transform names
\* the rule; fileRoot is the value fileRootUri holds when the rule is called
RewriteUris(msg, transform, fileRoot) ==
    IF msg.uri = <<>> THEN msg
    ELSE LET parsed == ParseUrl(msg.uri[1])
         IN  IF IsThrow(parsed) THEN parsed
             ELSE LET out == IF transform = "transformZipToFileUri"
                                 THEN ZipToFileUri(fileRoot, parsed)
                                 ELSE TransformFileToZipUri(parsed)
                  IN  IF IsThrow(out) THEN out ELSE [msg EXCEPT !.uri = <<out>>]

(***************************************************************************)
(* rewriteUris on a message body of any shape.  A JSON value is a leaf     *)
(* (a string, given as the URL it spells or as no URL) or an object: the   *)
(* sequence of its properties, in the order of Object.keys.                *)
(***************************************************************************)
Leaf(v) == [t |-> "leaf", v |-> v]

Field(k, v) == [k |-> k, v |-> v]

Object(fields) == [t |-> "object", fields |-> fields]

\* transform(new URL(obj.uri)) for the rule named transform
ApplyTransform(transform, fileRoot, raw) ==
    LET parsed == ParseUrl(raw)
    IN  IF IsThrow(parsed) THEN parsed
        ELSE IF transform = "transformZipToFileUri" THEN ZipToFileUri(fileRoot, parsed)
        ELSE TransformFileToZipUri(parsed)

RECURSIVE RewriteUrisIn(_, _, _)
RECURSIVE RewriteChildren(_, _, _, _)

\* the loop over Object.keys(obj) from the i-th key on
RewriteChildren(obj, i, transform, fileRoot) ==
    IF i > Len(obj.fields) THEN obj
    ELSE LET c == RewriteUrisIn(obj.fields[i].v, transform, fileRoot)
         IN  IF IsThrow(c) THEN c
             ELSE RewriteChildren([obj EXCEPT !.fields[i].v = c], i + 1, transform, fileRoot)

\* a rewriteUris that does not descend into the properties
RewriteUrisFlat(obj, transform, fileRoot) ==
    IF obj.t # "object" THEN obj
    ELSE LET I == { i \in 1..Len(obj.fields) : obj.fields[i].k = "uri" }
         IN  IF I = {} THEN obj
             ELSE LET i == CHOOSE j \in I : TRUE
                      val == obj.fields[i].v
                      out == IF val.t # "leaf"
                             THEN NodeError("Invalid URL", "ERR_INVALID_URL")
                             ELSE ApplyTransform(transform, fileRoot, val.v)
                  IN  IF IsThrow(out) THEN out
                      ELSE [obj EXCEPT !.fields[i].v = Leaf(out)]

\* rewriteUris(obj, transform): the value afterwards, or the exception
RewriteUrisIn(obj, transform, fileRoot) ==
    IF obj.t # "object" THEN obj
    ELSE LET I == { i \in 1..Len(obj.fields) : obj.fields[i].k = "uri" }
         IN  IF I = {} THEN RewriteChildren(obj, 1, transform, fileRoot)
             ELSE LET i == CHOOSE j \in I : TRUE
                      val == obj.fields[i].v
                      out == IF val.t # "leaf"
                             THEN NodeError("Invalid URL", "ERR_INVALID_URL")
                             ELSE ApplyTransform(transform, fileRoot, val.v)
                  IN  IF IsThrow(out) THEN out
                      ELSE RewriteChildren([obj EXCEPT !.fields[i].v = Leaf(out)], 1,
                                           transform, fileRoot)

\* the _trace property a traced response is given: the URL of the trace
TraceField == Field("_trace", Leaf(Url("https:", "app.lightstep.com", <<"trace">>, <<>>)))

\* the forward callback on a worker message; traced: the message is a
\* response whose pending span is a LightstepSpan
ForwardBody(obj, traced) ==
    RewriteUrisIn(IF traced THEN [obj EXCEPT !.fields = Append(@, TraceField)] ELSE obj,
                  "transformFileToZipUri", fileRootUri)

\* the listen callback on the body of a client message that is no initialize
ListenBody(obj) == RewriteUrisIn(obj, "transformZipToFileUri", fileRootUri)

(***************************************************************************)
(* Messages.  A client message is a record: its arrival number seq, its    *)
(* kind, method and id, its uri property (<<>> when it has none) and, for  *)
(* initialize, params.rootUri and the length of params.workspaceFolders    *)
(* (-1 when absent).                                                       *)
(***************************************************************************)
Message(seq, kind, method, id, uri, rootUri, folders) ==
    [seq |-> seq, kind |-> kind, method |-> method, id |-> id, uri |-> uri,
     rootUri |-> rootUri, folders |-> folders]

ZipNames == {"r.zip"}

\* the rootUri values a client may send; <<>> is an absent rootUri
RootUris ==
    { <<>>,
      <<Url("https:", "h", <<"r.zip">>, <<>>)>>,
      <<Url("http:", "h", <<"r.zip">>, <<>>)>>,
      <<Url("https:", "h", <<"r">>, <<>>)>>,
      <<Url("file:", "", <<"r.zip">>, <<>>)>> }

\* the uri property of a client message: none, no URL at all, or an address
\* of the archive
ClientUris ==
    { <<>>, <<[invalid |-> TRUE]>>, <<Url("https:", "h", <<"r.zip">>, <<"src", "a.ts">>)>> }

DirName(h) ==
    CASE h = 1 -> "d1" [] h = 2 -> "d2" [] h = 3 -> "d3" [] h = 4 -> "d4" [] OTHER -> "d5"

\* path.join(CACHE_DIR, <host and path> + '_' + uuid.v1()): unique per call
TempDirOf(h) == <<"cache", DirName(h)>>

\* InitializeCheck without the check of the protocol
InitializeCheckAnyScheme(msg, zip) ==
    IF msg.rootUri = <<>>
    THEN [zip |-> zip, err |-> <<PlainError("No rootUri given as initialize parameter")>>]
    ELSE IF msg.folders > 1
    THEN [zip |-> zip, err |-> <<PlainError("More than one workspace folder given. The TypeScript server only supports a single workspace folder.")>>]
    ELSE LET u == ParseUrl(msg.rootUri[1])
         IN  IF IsThrow(u) THEN [zip |-> zip, err |-> <<u>>]
             ELSE IF u.pathname = <<>> \/ Last(u.pathname) \notin ZipNames
             THEN [zip |-> <<u>>, err |-> <<PlainError("rootUri must end with .zip")>>]
             ELSE [zip |-> <<u>>, err |-> <<>>]

\* the checks of the initialize parameters, in the order of the code: the
\* value zipRootUri has afterwards, and the exception if one is thrown
InitializeCheck(msg, zip) ==
    IF msg.rootUri = <<>>
    THEN [zip |-> zip, err |-> <<PlainError("No rootUri given as initialize parameter")>>]
    ELSE IF msg.folders > 1
    THEN [zip |-> zip, err |-> <<PlainError("More than one workspace folder given. The TypeScript server only supports a single workspace folder.")>>]
    ELSE LET u == ParseUrl(msg.rootUri[1])
         IN  IF IsThrow(u) THEN [zip |-> zip, err |-> <<u>>]
             ELSE IF u.pathname = <<>> \/ Last(u.pathname) \notin ZipNames
             THEN [zip |-> <<u>>, err |-> <<PlainError("rootUri must end with .zip")>>]
             ELSE IF u.protocol # "http:" /\ u.protocol # "https:"
             THEN [zip |-> <<u>>, err |-> <<PlainError("Protocol must be http or https")>>]
             ELSE [zip |-> <<u>>, err |-> <<>>]

\* the initialize request while its handler is suspended: rootUri and
\* workspaceFolders are only read before the first await and are overwritten
\* before the request is forwarded
Pending(msg) == [msg EXCEPT !.rootUri = <<>>, !.folders = -1]

\* the error response of the catch block
ErrorResponse(msg, err) ==
    [from |-> "proxy", kind |-> "response", id |-> msg.id, uri |-> <<>>,
     error |-> <<[message |-> err.throws,
                  code |-> IF err.codeType = "number" THEN err.code
                           ELSE UnknownErrorCode]>>]

\* Catch answering every message, a notification too
CatchAnswersAll(msg, err) == Append(toClient, ErrorResponse(msg, err))

\* the catch block of the message handler: what the client connection has
\* been given afterwards
Catch(msg, err) ==
    IF msg.kind = "request" THEN Append(toClient, ErrorResponse(msg, err)) ELSE toClient

\* the span bookkeeping at the start of the handler
StartSpan(msg) ==
    IF msg.kind = "request" THEN requestSpans \cup {msg.id} ELSE requestSpans

(***************************************************************************)
(* Cleanup actions and cleanupAll.                                         *)
(***************************************************************************)
\* a cleanup closure: what it does (kind), for which handler h and manifest m,
\* and n: it is the n-th action the session registered
CleanupFn(kind, h, m, n) == [kind |-> kind, h |-> h, m |-> m, n |-> n]

DisposeFn == CleanupFn("dispose", 0, 0, 1)

IdleRun ==
    [st |-> "idle", idx |-> 0, target |-> <<>>, given |-> <<>>, log |-> <<>>,
     raised |-> FALSE]

\* connectionCleanupFns.push(a)
Push(list, a) == Append(list, a)

\* an unshift that adds at the end, as push does
UnshiftAtEnd(list, a) == Append(list, a)

\* connectionCleanupFns.unshift(a)
Unshift(list, a) == <<a>> \o list

\* yarnProcess.kill()
Kill(hs, h, m) ==
    IF hs[h].tasks[m].st = "running" THEN [hs EXCEPT ![h].tasks[m].st = "killed"] ELSE hs

\* a catch that rethrows: the run is abandoned
CleanupRethrow(c) == [c EXCEPT !.raised = TRUE]

\* the catch of cleanupAll: the error is logged and the loop goes on
CleanupCatch(c) == c

\* cleanupAll from index c.i on, up to the first action that really awaits
\* (the removal of the temp dir) or to the end of the list.  F: the kinds of
\* action that throw when called.
RECURSIVE CleanupLoop(_, _, _)
CleanupLoop(list, c, F) ==
    IF c.raised \/ c.i > Len(list) THEN [c EXCEPT !.st = "done"]
    ELSE LET a == list[c.i]
             throws == a.kind \in F /\ c.failures < budget.failures
         IN  IF a.kind = "rmTemp"
             THEN [c EXCEPT !.st = "waiting", !.log = Append(@, [a |-> a, ok |-> TRUE])]
             ELSE LET d == [c EXCEPT !.i = @ + 1,
                                     !.log = Append(@, [a |-> a, ok |-> ~throws]),
                                     !.failures = IF throws THEN @ + 1 ELSE @,
                                     !.worker = IF a.kind = "dispose" /\ ~throws
                                                THEN FALSE ELSE @,
                                     !.hs = IF a.kind = "kill" /\ ~throws
                                            THEN Kill(@, a.h, a.m) ELSE @]
                  IN  CleanupLoop(list, IF throws THEN CleanupCatch(d) ELSE d, F)

(***************************************************************************)
(* Initial state: the state right after the 'connection' callback ran.     *)
(***************************************************************************)
InitSession(b) ==
    /\ zipRootUri = <<>>
    /\ fileRootUri = <<>>
    /\ tempDir = <<>>
    /\ extractPath = <<>>
    /\ connectionCleanupFns = <<DisposeFn>>
    /\ globalCleanupFns = {"cleanupConnection"}
    /\ requestSpans = {}
    /\ finishedSpans = {}
    /\ handlers = <<>>
    /\ runs = [r \in RunIds |-> IdleRun]
    /\ toWorker = <<>>
    /\ toClient = <<>>
    /\ clientSeq = 0
    /\ initSeq = 0
    /\ fromWorker = <<>>
    /\ workerRunning = TRUE
    /\ dirs = {}
    /\ closed = FALSE
    /\ signalled = 0
    /\ exited = FALSE
    /\ failures = 0
    /\ budget = b

NoProbe == [stage |-> "none"]

(***************************************************************************)
(* The message handler of webSocketReader.listen, up to its first await.   *)
(***************************************************************************)
Receive(msg) ==
    /\ ~closed /\ ~exited
    /\ clientSeq < budget.client
    /\ msg.seq = clientSeq + 1
    /\ clientSeq' = clientSeq + 1
    /\ LET n == IF msg.method = "initialize" THEN 1 ELSE 0
       IN  initSeq + n <= budget.inits /\ initSeq' = initSeq + n
    /\ requestSpans' = StartSpan(msg)
    /\ IF msg.kind = "request" /\ msg.method = "initialize"
       THEN LET check == InitializeCheck(msg, zipRootUri)
            IN  /\ zipRootUri' = check.zip
                /\ IF check.err # <<>>
                   THEN /\ toClient' = Catch(msg, check.err[1])
                        /\ UNCHANGED <<tempDir, handlers>>
                   ELSE /\ tempDir' = <<TempDirOf(msg.seq)>>
                        /\ handlers' = handlers @@
                               (msg.seq :> [pc |-> "mkdirp", msg |-> Pending(msg),
                                            tasks |-> <<>>])
                        /\ UNCHANGED toClient
                /\ UNCHANGED toWorker
       ELSE LET out == RewriteUris(msg, "transformZipToFileUri", fileRootUri)
            IN  /\ IF IsThrow(out)
                   THEN toClient' = Catch(msg, out) /\ UNCHANGED toWorker
                   ELSE toWorker' = Append(toWorker, out) /\ UNCHANGED toClient
                /\ UNCHANGED <<zipRootUri, tempDir, handlers>>
    /\ UNCHANGED <<fileRootUri, extractPath, connectionCleanupFns, globalCleanupFns,
                   finishedSpans, runs, fromWorker, workerRunning, dirs, closed,
                   signalled, exited, failures, budget, probe>>

\* the initialize requests a client may send as its next message
InitializeMsgs(roots, folders) ==
    { Message(clientSeq + 1, "request", "initialize", clientSeq + 1, <<>>, r, f) :
        r \in roots, f \in folders }

\* the other messages a client may send as its next message
OtherMsgs ==
    { Message(clientSeq + 1, k, "other", IF k = "notification" THEN 0 ELSE clientSeq + 1,
              u, <<>>, -1) :
        k \in {"request", "notification", "response"}, u \in ClientUris }

ClientInitialize == \E msg \in InitializeMsgs(RootUris, {-1, 0, 1, 2}) : Receive(msg)

ClientOther == \E msg \in OtherMsgs : Receive(msg)

(***************************************************************************)
(* The initialize handler after its awaits.  handlers[h].pc names the      *)
(* await the handler of message h is suspended at.                         *)
(***************************************************************************)
Suspended(h, pc) == h \in DOMAIN handlers /\ handlers[h].pc = pc /\ ~exited

\* an await rejects: the catch block answers the request
Fail(h, err) ==
    /\ handlers' = [handlers EXCEPT ![h].pc = "failed"]
    /\ toClient' = Catch(handlers[h].msg, err)

FsError == NodeError("permission denied", "EACCES")

\* the errors a failed download is rejected with
FetchErrors ==
    { PlainError("socket hang up"), NodeError("connection reset", "ECONNRESET"),
      Throw("bad gateway", "number", 502) }

\* a race: the first task to settle resolves it
AnySettled(hd) == \E m \in DOMAIN hd.tasks : hd.tasks[m].st \in {"ok", "failed"}

\* Promise.all over the install tasks has resolved: every task has settled
AllSettled(hd) == \A m \in DOMAIN hd.tasks : hd.tasks[m].st \in {"ok", "failed"}

\* a forward that rewrites params.rootUri and leaves workspaceFolders alone
ForwardInitializeRootOnly(h, hs) ==
    LET fileRoot == <<PathToFileURL(extractPath[1])>>
        msg == [hs[h].msg EXCEPT !.rootUri = fileRoot]
        out == RewriteUris(msg, "transformZipToFileUri", fileRoot)
    IN  /\ fileRootUri' = fileRoot
        /\ IF IsThrow(out)
           THEN /\ handlers' = [hs EXCEPT ![h].pc = "failed"]
                /\ toClient' = Catch(hs[h].msg, out)
                /\ UNCHANGED toWorker
           ELSE /\ handlers' = [hs EXCEPT ![h].pc = "done"]
                /\ toWorker' = Append(toWorker, out)
                /\ UNCHANGED toClient

\* the rewrite of the initialize parameters and the write to the worker
ForwardInitialize(h, hs) ==
    LET fileRoot == <<PathToFileURL(extractPath[1])>>
        msg == [hs[h].msg EXCEPT !.rootUri = fileRoot, !.folders = 1, !.uri = fileRoot]
        out == RewriteUris(msg, "transformZipToFileUri", fileRoot)
    IN  /\ fileRootUri' = fileRoot
        /\ IF IsThrow(out)
           THEN /\ handlers' = [hs EXCEPT ![h].pc = "failed"]
                /\ toClient' = Catch(hs[h].msg, out)
                /\ UNCHANGED toWorker
           ELSE /\ handlers' = [hs EXCEPT ![h].pc = "done"]
                /\ toWorker' = Append(toWorker, out)
                /\ UNCHANGED toClient

\* a task of handler h has changed: the handler goes on once all have settled
AfterInstall(h, hs) ==
    IF AllSettled(hs[h]) THEN ForwardInitialize(h, hs)
    ELSE handlers' = hs /\ UNCHANGED <<fileRootUri, toWorker, toClient>>

\* await mkdirp(tempDir) settles
MkdirpDone(h) ==
    /\ Suspended(h, "mkdirp")
    /\ \/ /\ dirs' = dirs \cup {TempDirOf(h)}
          /\ connectionCleanupFns' = Push(connectionCleanupFns,
                        CleanupFn("rmTemp", h, 0, Len(connectionCleanupFns) + 1))
          /\ extractPath' = <<tempDir[1] \o <<"repo">>>>
          /\ handlers' = [handlers EXCEPT ![h].pc = "mkdirs"]
          /\ UNCHANGED toClient
       \/ /\ Fail(h, FsError)
          /\ UNCHANGED <<dirs, connectionCleanupFns, extractPath>>
    /\ UNCHANGED <<zipRootUri, fileRootUri, tempDir, globalCleanupFns, requestSpans,
                   finishedSpans, runs, toWorker, clientSeq, initSeq, fromWorker, workerRunning,
                   closed, signalled, exited, failures, budget, probe>>

\* one of the awaits between the temp dir and the glob settles
StageDone(h, from, to, errors) ==
    /\ Suspended(h, from)
    /\ \/ handlers' = [handlers EXCEPT ![h].pc = to] /\ UNCHANGED toClient
       \/ \E err \in errors : Fail(h, err)
    /\ UNCHANGED <<zipRootUri, fileRootUri, tempDir, extractPath, connectionCleanupFns,
                   globalCleanupFns, requestSpans, finishedSpans, runs, toWorker,
                   clientSeq, initSeq, fromWorker, workerRunning, dirs, closed, signalled,
                   exited, failures, budget, probe>>

MkdirsDone(h) == StageDone(h, "mkdirs", "fetch", {FsError})

FetchDone(h) == StageDone(h, "fetch", "extract", FetchErrors)

ExtractDone(h) == StageDone(h, "extract", "glob", {PlainError("not a zip archive")})

\* the paths glob('**/package.json') finds, relative to extractPath: the m-th
\* is that of the repository root, of a subdirectory, of a directory below it
ManifestPath(m) ==
    CASE m = 1 -> <<"package.json">>
      [] m = 2 -> <<"sub", "package.json">>
      [] OTHER -> <<"sub", "lib" , "package.json">>

\* path.dirname of a relative path
Dirname(p) == IF Len(p) = 1 THEN <<".">> ELSE Front(p)

\* path.join(cacheFolderRoot, relPackageJsonDirName) and
\* path.join(globalFolderRoot, relPackageJsonDirName), both roots being
\* folders of the temp dir temp
TaskFolders(temp, relPackageJsonPath) ==
    [cacheFolder  |-> PosixJoin(temp \o <<"cache">>, Dirname(relPackageJsonPath)),
     globalFolder |-> PosixJoin(temp \o <<"global">>, Dirname(relPackageJsonPath))]

\* glob('**/package.json') settles with n paths; every install task starts
GlobDone(h) ==
    /\ Suspended(h, "glob")
    /\ \/ \E n \in 0..budget.manifests :
            AfterInstall(h, [handlers EXCEPT
                ![h].pc = "install",
                ![h].tasks = [m \in 1..n |-> [st |-> "filter", folder |-> <<>>,
                                               path |-> ManifestPath(m),
                                               yarn |-> <<>>]]])
       \/ Fail(h, FsError) /\ UNCHANGED <<fileRootUri, toWorker>>
    /\ UNCHANGED <<zipRootUri, tempDir, extractPath, connectionCleanupFns,
                   globalCleanupFns, requestSpans, finishedSpans, runs, clientSeq, initSeq,
                   fromWorker, workerRunning, dirs, closed, signalled, exited,
                   failures, budget, probe>>

InTask(h, m, st) ==
    /\ Suspended(h, "install")
    /\ m \in DOMAIN handlers[h].tasks
    /\ handlers[h].tasks[m].st = st

\* await filterDependencies(...) settles
FilterDone(h, m) ==
    /\ InTask(h, m, "filter")
    /\ \/ AfterInstall(h, [handlers EXCEPT
              ![h].tasks[m].st = "mkdirs",
              ![h].tasks[m].folder = <<Front(extractPath[1])>>,
              ![h].tasks[m].yarn = <<TaskFolders(Front(extractPath[1]),
                                                 handlers[h].tasks[m].path)>>])
       \/ AfterInstall(h, [handlers EXCEPT ![h].tasks[m].st = "failed"])
    /\ UNCHANGED <<zipRootUri, tempDir, extractPath, connectionCleanupFns,
                   globalCleanupFns, requestSpans, finishedSpans, runs, clientSeq, initSeq,
                   fromWorker, workerRunning, dirs, closed, signalled, exited,
                   failures, budget, probe>>

\* the mkdirp of the task's global and cache folders settles; on success yarn
\* is spawned and its kill is put in front of the cleanup list
FoldersDone(h, m) ==
    /\ InTask(h, m, "mkdirs")
    /\ \/ /\ dirs' = dirs \cup {handlers[h].tasks[m].folder[1]}
          /\ connectionCleanupFns' = Unshift(connectionCleanupFns,
                        CleanupFn("kill", h, m, Len(connectionCleanupFns) + 1))
          /\ AfterInstall(h, [handlers EXCEPT ![h].tasks[m].st = "running"])
       \/ /\ AfterInstall(h, [handlers EXCEPT ![h].tasks[m].st = "failed"])
          /\ UNCHANGED <<dirs, connectionCleanupFns>>
    /\ UNCHANGED <<zipRootUri, tempDir, extractPath, globalCleanupFns, requestSpans,
                   finishedSpans, runs, clientSeq, initSeq, fromWorker, workerRunning, closed,
                   signalled, exited, failures, budget, probe>>

\* the yarn process emits 'success' or 'error'
YarnDone(h, m) ==
    /\ Suspended(h, "install")
    /\ m \in DOMAIN handlers[h].tasks
    /\ \/ /\ handlers[h].tasks[m].st = "running"
          /\ AfterInstall(h, [handlers EXCEPT ![h].tasks[m].st = "ok"])
       \/ /\ handlers[h].tasks[m].st \in {"running", "killed"}
          /\ AfterInstall(h, [handlers EXCEPT ![h].tasks[m].st = "failed"])
    /\ UNCHANGED <<zipRootUri, tempDir, extractPath, connectionCleanupFns,
                   globalCleanupFns, requestSpans, finishedSpans, runs, clientSeq, initSeq,
                   fromWorker, workerRunning, dirs, closed, signalled, exited,
                   failures, budget, probe>>

(***************************************************************************)
(* Cleanup runs: the 'close' listener and the signal handlers.             *)
(***************************************************************************)
\* what follows `await cleanupAll(...)` in the caller r
AfterCleanup(r, c) ==
    IF c.st = "done" /\ ~c.raised
    THEN IF r = CloseRun
         THEN globalCleanupFns' = globalCleanupFns \ {"cleanupConnection"}
              /\ UNCHANGED exited
         ELSE exited' = TRUE /\ UNCHANGED globalCleanupFns
    ELSE UNCHANGED <<globalCleanupFns, exited>>

\* caller r runs cleanupAll(connectionCleanupFns) on from the state c
RunCleanup(r, c0, given, F) ==
    LET c == CleanupLoop(connectionCleanupFns, c0, F)
    IN  /\ runs' = [runs EXCEPT ![r] =
                      [st |-> c.st, idx |-> c.i, given |-> given, log |-> c.log,
                       raised |-> c.raised,
                       target |-> IF c.st = "waiting" THEN tempDir ELSE <<>>]]
        /\ workerRunning' = c.worker
        /\ handlers' = c.hs
        /\ failures' = c.failures
        /\ AfterCleanup(r, c)

StartCleanup(r, F) ==
    RunCleanup(r, [i |-> 1, st |-> "running", raised |-> FALSE, log |-> <<>>,
                   failures |-> failures, worker |-> workerRunning, hs |-> handlers],
               connectionCleanupFns, F)

\* the kinds of action that may throw when called in a run that starts now:
\* any of those that return at once, while the environment has failures left
ThrowingKinds ==
    IF failures < budget.failures THEN SUBSET {"dispose", "kill"} ELSE {{}}

\* connection.on('close', ...)
Close ==
    /\ ~closed /\ ~exited
    /\ closed' = TRUE
    /\ \E F \in ThrowingKinds : StartCleanup(CloseRun, F)
    /\ UNCHANGED <<zipRootUri, fileRootUri, tempDir, extractPath, connectionCleanupFns,
                   requestSpans, finishedSpans, toWorker, toClient, clientSeq, initSeq,
                   fromWorker, dirs, signalled, budget, probe>>

\* process.once(signal, ...)
Signal ==
    /\ signalled < Cardinality(Signals) /\ signalled < budget.signals /\ ~exited
    /\ signalled' = signalled + 1
    /\ IF "cleanupConnection" \in globalCleanupFns
       THEN \E F \in ThrowingKinds : StartCleanup(signalled + 1, F)
       ELSE /\ exited' = TRUE
            /\ UNCHANGED <<runs, workerRunning, handlers, failures, globalCleanupFns>>
    /\ UNCHANGED <<zipRootUri, fileRootUri, tempDir, extractPath, connectionCleanupFns,
                   requestSpans, finishedSpans, toWorker, toClient, clientSeq, initSeq,
                   fromWorker, dirs, closed, budget, probe>>

\* the rmfr(tempDir) a run awaits settles and the run goes on
RmfrDone(r) ==
    /\ runs[r].st = "waiting" /\ ~exited
    /\ \E ok \in BOOLEAN, F \in ThrowingKinds :
         LET run == runs[r]
             c0 == [i |-> run.idx + 1, st |-> "running", raised |-> FALSE,
                    log |-> IF ok THEN run.log
                            ELSE [run.log EXCEPT ![Len(run.log)].ok = FALSE],
                    failures |-> IF ok THEN failures ELSE failures + 1,
                    worker |-> workerRunning, hs |-> handlers]
         IN  /\ ok \/ failures < budget.failures
             /\ dirs' = IF ok THEN dirs \ {run.target[1]} ELSE dirs
             /\ RunCleanup(r, IF ok THEN c0 ELSE CleanupCatch(c0), run.given, F)
    /\ UNCHANGED <<zipRootUri, fileRootUri, tempDir, extractPath, connectionCleanupFns,
                   requestSpans, finishedSpans, toWorker, toClient, clientSeq, initSeq,
                   fromWorker, closed, signalled, budget, probe>>

(***************************************************************************)
(* The worker's messages: languageServerConnection.forward.                *)
(***************************************************************************)
\* ids of the requests the worker was given and has not answered yet
Unanswered ==
    { toWorker[i].id : i \in { j \in 1..Len(toWorker) : toWorker[j].kind = "request" } }
    \ { fromWorker[i].id : i \in 1..Len(fromWorker) }

\* the uri property of a worker message: none, a file of the checkout, or an
\* address that is no file
WorkerUris ==
    { <<>>, <<Url("untitled:", "", <<"new">>, <<>>)>> }
    \cup (IF extractPath = <<>> THEN {}
          ELSE { <<Url("file:", "", extractPath[1] \o <<"src", "a.ts">>, <<>>)>> })

WorkerMsgs ==
    { [from |-> "worker", wseq |-> Len(fromWorker) + 1, kind |-> k, id |-> i, uri |-> u] :
        k \in {"response", "notification"}, i \in Unanswered \cup {0}, u \in WorkerUris }

\* a forward callback that leaves the spans alone
FinishSpanNever(msg) == requestSpans

\* the span bookkeeping of the forward callback: the ids pending afterwards
FinishSpan(msg) ==
    IF msg.kind = "response" /\ msg.id \in requestSpans
    THEN requestSpans \ {msg.id} ELSE requestSpans

\* the worker emits msg and the forward callback handles it
WorkerMessage(msg) ==
    /\ workerRunning /\ ~exited
    /\ Len(fromWorker) < budget.worker
    /\ (msg.kind = "response") = (msg.id # 0)
    /\ fromWorker' = Append(fromWorker, msg)
    /\ requestSpans' = FinishSpan(msg)
    /\ finishedSpans' = finishedSpans \cup (requestSpans \ requestSpans')
    /\ LET out == RewriteUris(msg, "transformFileToZipUri", fileRootUri)
       IN  toClient' = IF IsThrow(out) THEN toClient ELSE Append(toClient, out)
    /\ UNCHANGED <<zipRootUri, fileRootUri, tempDir, extractPath, connectionCleanupFns,
                   globalCleanupFns, handlers, runs, toWorker, clientSeq, initSeq, workerRunning,
                   dirs, closed, signalled, exited, failures, budget, probe>>

WorkerSend == \E msg \in WorkerMsgs : WorkerMessage(msg)

(***************************************************************************)
(* The specification of a session in a process that receives signals.      *)
(***************************************************************************)
\* a client that sends initialize at most once, until the connection closes;
\* no signal arrives and no cleanup action fails
Init ==
    /\ InitSession([client |-> MaxClientMsgs, inits |-> MaxInits, worker |-> MaxWorkerMsgs,
                    manifests |-> MaxManifests - 1, signals |-> 0, failures |-> 0])
    /\ probe = NoProbe

Handshake ==
    \E h \in DOMAIN handlers :
        \/ MkdirpDone(h)
        \/ MkdirsDone(h)
        \/ FetchDone(h)
        \/ ExtractDone(h)
        \/ GlobDone(h)
        \/ \E m \in DOMAIN handlers[h].tasks :
              FilterDone(h, m) \/ FoldersDone(h, m) \/ YarnDone(h, m)

Cleanup == Close \/ Signal \/ (\E r \in RunIds : RmfrDone(r))

Next ==
    \/ ClientInitialize
    \/ ClientOther
    \/ WorkerSend
    \/ Handshake
    \/ Close
    \/ RmfrDone(CloseRun)

Spec == Init /\ [][Next]_vars

(***************************************************************************)
(* The teardown of a session: the client sends one well-formed initialize  *)
(* request; the connection closes, signals arrive and cleanup actions fail *)
(* at any moment.                                                          *)
(***************************************************************************)
GoodRoot == <<Url("https:", "h", <<"r.zip">>, <<>>)>>

InitCleanup ==
    /\ InitSession([client |-> 1, inits |-> MaxInits, worker |-> 0,
                    manifests |-> MaxManifests, signals |-> MaxSignals,
                    failures |-> MaxFailures])
    /\ probe = NoProbe

NextCleanup ==
    \/ \E msg \in InitializeMsgs({GoodRoot}, {1}) : Receive(msg)
    \/ Handshake
    \/ Cleanup

SpecCleanup == InitCleanup /\ [][NextCleanup]_vars

(***************************************************************************)
(* The rewrite rules of an active session, taken there and back: the       *)
(* session completes a handshake, then one address is taken through one    *)
(* rule and the result through the other.                                  *)
(***************************************************************************)
RECURSIVE SeqsUpTo(_, _)
SeqsUpTo(S, n) ==
    IF n = 0 THEN {<<>>}
    ELSE LET shorter == SeqsUpTo(S, n - 1)
         IN  shorter \cup { Append(q, x) : q \in shorter, x \in S }

\* the session has completed a handshake: both rules have their roots
Active == zipRootUri # <<>> /\ fileRootUri # <<>> /\ extractPath # <<>>

\* an archive address: the archive root plus a fragment
ArchiveAddress(segs) ==
    ParseUrl(Url(zipRootUri[1].protocol, zipRootUri[1].hostname,
                 zipRootUri[1].pathname, segs))

\* the fragments a file address may carry
FileHashes == { <<>>, <<"src">> }

\* a file address: the extraction root plus a path, and maybe a fragment
FileAddress(segs, hash) ==
    ParseUrl(Url("file:", "", fileRootUri[1].pathname \o segs, hash))

InitUri ==
    /\ InitSession([client |-> 1, inits |-> MaxInits, worker |-> 0, manifests |-> 0,
                    signals |-> 0, failures |-> 0])
    /\ probe = NoProbe

\* an address of one of the two domains is chosen
ProbeInput ==
    /\ Active /\ probe.stage = "none"
    /\ \E segs \in SeqsUpTo(Segments, MaxSegs) :
          \/ probe' = [stage |-> "input", rule |-> "zip", input |-> ArchiveAddress(segs)]
          \/ \E hash \in FileHashes :
                probe' = [stage |-> "input", rule |-> "file",
                          input |-> FileAddress(segs, hash)]
    /\ UNCHANGED <<zipRootUri, fileRootUri, tempDir, extractPath, connectionCleanupFns,
                   globalCleanupFns, requestSpans, finishedSpans, handlers, runs, toWorker,
                   toClient, clientSeq, initSeq, fromWorker, workerRunning, dirs, closed,
                   signalled, exited, failures, budget>>

\* the rule of the address's domain is applied to it
ProbeThere ==
    /\ probe.stage = "input"
    /\ probe' = [stage |-> "mid", rule |-> probe.rule, input |-> probe.input,
                 mid |-> IF probe.rule = "zip" THEN TransformZipToFileUri(probe.input)
                         ELSE TransformFileToZipUri(probe.input)]
    /\ UNCHANGED <<zipRootUri, fileRootUri, tempDir, extractPath, connectionCleanupFns,
                   globalCleanupFns, requestSpans, finishedSpans, handlers, runs, toWorker,
                   toClient, clientSeq, initSeq, fromWorker, workerRunning, dirs, closed,
                   signalled, exited, failures, budget>>

\* the other rule is applied to the result; an exception is passed on
ProbeBack ==
    /\ probe.stage = "mid"
    /\ probe' = [stage |-> "out", rule |-> probe.rule, input |-> probe.input,
                 mid |-> probe.mid,
                 out |-> IF IsThrow(probe.mid) THEN probe.mid
                         ELSE IF probe.rule = "zip" THEN TransformFileToZipUri(probe.mid)
                         ELSE TransformZipToFileUri(probe.mid)]
    /\ UNCHANGED <<zipRootUri, fileRootUri, tempDir, extractPath, connectionCleanupFns,
                   globalCleanupFns, requestSpans, finishedSpans, handlers, runs, toWorker,
                   toClient, clientSeq, initSeq, fromWorker, workerRunning, dirs, closed,
                   signalled, exited, failures, budget>>

NextUri ==
    \/ \E msg \in InitializeMsgs({GoodRoot}, {1}) : Receive(msg)
    \/ Handshake
    \/ ProbeInput
    \/ ProbeThere
    \/ ProbeBack

SpecUri == InitUri /\ [][NextUri]_vars

(***************************************************************************)
(* A client that sends initialize again: one request more than the other   *)
(* specifications allow.                                                   *)
(***************************************************************************)
InitReinit ==
    /\ InitSession([client |-> MaxInits + 1, inits |-> MaxInits + 1, worker |-> 0,
                    manifests |-> 0, signals |-> 0, failures |-> 0])
    /\ probe = NoProbe

NextReinit == ClientInitialize \/ Handshake

SpecReinit == InitReinit /\ [][NextReinit]_vars

(***************************************************************************)
(* Message bodies through the proxy: the session completes a handshake,    *)
(* then one message of some shape passes in one of the two directions.     *)
(***************************************************************************)
Keys == {"uri", "text"}

\* the orders in which an object may hold some of the keys
KeySeqs == { ks \in SeqsUpTo(Keys, MaxFields) :
               \A i, j \in 1..Len(ks) : i # j => ks[i] # ks[j] }

\* an address of another archive, and of a file that is not extracted
ForeignArchiveAddress == Url("https:", "other", <<"x.zip">>, <<"src", "a.ts">>)

ForeignFileAddress == Url("file:", "", <<"usr", "lib.d.ts">>, <<>>)

\* the strings of a message from dir: an address of its side, an address
\* outside the roots of the session, or no URL
Leaves(dir) ==
    { Leaf([invalid |-> TRUE]),
      Leaf(IF dir = "client" THEN ArchiveAddress(<<"src", "a.ts">>)
           ELSE FileAddress(<<"src", "a.ts">>, <<>>)),
      Leaf(IF dir = "client" THEN ForeignArchiveAddress ELSE ForeignFileAddress) }

Objects(values) ==
    UNION { { Object([i \in 1..Len(ks) |-> Field(ks[i], f[i])]) :
                f \in [1..Len(ks) -> values] } : ks \in KeySeqs }

RECURSIVE Values(_, _)
Values(dir, depth) ==
    IF depth = 0 THEN Leaves(dir)
    ELSE Leaves(dir) \cup Objects(Values(dir, depth - 1))

Bodies(dir) == Objects(Values(dir, MaxDepth - 1))

InitRewrite ==
    /\ InitSession([client |-> 1, inits |-> MaxInits, worker |-> 0, manifests |-> 0,
                    signals |-> 0, failures |-> 0])
    /\ probe = NoProbe

\* a message arrives from the client or from the worker
BodyArrives ==
    /\ Active /\ probe.stage = "none"
    /\ \/ \E body \in Bodies("client") :
            probe' = [stage |-> "message", dir |-> "client", input |-> body,
                      traced |-> FALSE]
       \/ \E body \in Bodies("worker"), traced \in BOOLEAN :
            probe' = [stage |-> "message", dir |-> "worker", input |-> body,
                      traced |-> traced]
    /\ UNCHANGED <<zipRootUri, fileRootUri, tempDir, extractPath, connectionCleanupFns,
                   globalCleanupFns, requestSpans, finishedSpans, handlers, runs, toWorker,
                   toClient, clientSeq, initSeq, fromWorker, workerRunning, dirs, closed,
                   signalled, exited, failures, budget>>

\* the callback of its direction handles the message
BodyPasses ==
    /\ probe.stage = "message"
    /\ probe' = [stage |-> "passed", dir |-> probe.dir, input |-> probe.input,
                 traced |-> probe.traced,
                 out |-> IF probe.dir = "client" THEN ListenBody(probe.input)
                         ELSE ForwardBody(probe.input, probe.traced)]
    /\ UNCHANGED <<zipRootUri, fileRootUri, tempDir, extractPath, connectionCleanupFns,
                   globalCleanupFns, requestSpans, finishedSpans, handlers, runs, toWorker,
                   toClient, clientSeq, initSeq, fromWorker, workerRunning, dirs, closed,
                   signalled, exited, failures, budget>>

NextRewrite ==
    \/ \E msg \in InitializeMsgs({GoodRoot}, {1}) : Receive(msg)
    \/ Handshake
    \/ BodyArrives
    \/ BodyPasses

SpecRewrite == InitRewrite /\ [][NextRewrite]_vars

(***************************************************************************)
(* Properties of the message handler.                                      *)
(***************************************************************************)
Folders == {-1, 0, 1, 2}

ClientMsgs == InitializeMsgs(RootUris, Folders) \cup OtherMsgs

\* the error response the client is owed for msg when its handling raised err
ExpectedError(msg, err) ==
    [from |-> "proxy", kind |-> "response", id |-> msg.id, uri |-> <<>>,
     error |-> <<[message |-> err.throws,
                  code |-> IF err.codeType = "number" THEN err.code ELSE -32001]>>]

IsErrorFor(resp, id) ==
    resp.from = "proxy" /\ resp.kind = "response" /\ resp.id = id /\ resp.error # <<>>

Written(seq) == \E i \in 1..Len(toWorker) : toWorker[i].seq = seq

\* the cases of C1: the parameters an initialize request is rejected for
BadParams(msg) ==
    \/ msg.rootUri = <<>>
    \/ msg.folders > 1
    \/ msg.rootUri[1].pathname = <<>>
    \/ Last(msg.rootUri[1].pathname) # "r.zip"
    \/ msg.rootUri[1].protocol \notin {"http:", "https:"}

\* C1: an initialize request whose rootUri is absent, whose workspaceFolders
\* has more than one entry, whose rootUri path does not end in .zip or whose
\* rootUri scheme is neither http nor https is answered with an error response
\* carrying its id, starts no handshake, and is never written to the worker.
C1_Rejected ==
    /\ [][\A msg \in InitializeMsgs(RootUris, Folders) :
            (BadParams(msg) /\ Receive(msg)) =>
                /\ Len(toClient') = Len(toClient) + 1
                /\ IsErrorFor(Last(toClient'), msg.id)
                /\ SubSeq(toClient', 1, Len(toClient)) = toClient
                /\ toWorker' = toWorker
                /\ handlers' = handlers]_vars
    /\ [](\A i \in 1..Len(toWorker) :
            toWorker[i].method = "initialize" => toWorker[i].seq \in DOMAIN handlers)

\* an initialize request with a file: rootUri was rejected and not forwarded
C1_Witness ==
    /\ zipRootUri # <<>> /\ zipRootUri[1].protocol = "file:"
    /\ \E i \in 1..Len(toClient) :
          /\ toClient[i].from = "proxy"
          /\ toClient[i].error[1].message = "Protocol must be http or https"
    /\ \A i \in 1..Len(toWorker) : toWorker[i].method # "initialize"

\* the exception the synchronous part of the handler raises on msg, if any
Raised(msg) ==
    IF msg.kind = "request" /\ msg.method = "initialize"
    THEN InitializeCheck(msg, zipRootUri).err
    ELSE LET out == RewriteUris(msg, "transformZipToFileUri", fileRootUri)
         IN  IF IsThrow(out) THEN <<out>> ELSE <<>>

\* the errors an await of the handshake may reject with
AwaitErrors ==
    {FsError, PlainError("not a zip archive")} \cup FetchErrors
    \cup {PlainError("Cannot read property 'href' of undefined")}

\* C2: a request whose handling raises is answered with an error response
\* carrying its id, the error's message and a numeric code (the error's own
\* when it is a number, else the unknown-error code) and is not written to the
\* worker; a notification whose handling raises gets no response.
C2_ErrorResponse ==
    /\ [][\A msg \in ClientMsgs :
            (Receive(msg) /\ Raised(msg) # <<>>) =>
                /\ toWorker' = toWorker
                /\ toClient' = IF msg.kind = "request"
                               THEN Append(toClient, ExpectedError(msg, Raised(msg)[1]))
                               ELSE toClient]_vars
    /\ [][\A h \in DOMAIN handlers :
            (handlers[h].pc # "failed" /\ handlers'[h].pc = "failed") =>
                /\ toWorker' = toWorker
                /\ \E err \in AwaitErrors :
                      toClient' = Append(toClient, ExpectedError(handlers[h].msg, err))]_vars
    /\ [](\A h \in DOMAIN handlers : handlers[h].pc = "failed" => ~Written(h))

\* a download failed with a numeric code, which the client was sent
C2_Witness ==
    \E h \in DOMAIN handlers, i \in 1..Len(toClient) :
        /\ handlers[h].pc = "failed"
        /\ IsErrorFor(toClient[i], handlers[h].msg.id)
        /\ toClient[i].error[1].code = 502

\* C3: in each direction messages are forwarded in arrival order: the worker
\* is given the client's messages in the order they arrived, also when an
\* initialize request is still being handled, and the client is given the
\* worker's messages in the order the worker emitted them.
C3_ArrivalOrder ==
    /\ \A i, j \in 1..Len(toWorker) : i < j => toWorker[i].seq < toWorker[j].seq
    /\ \A i, j \in 1..Len(toClient) :
          (i < j /\ toClient[i].from = "worker" /\ toClient[j].from = "worker")
              => toClient[i].wseq < toClient[j].wseq

(***************************************************************************)
(* Properties of the cleanup registry.                                     *)
(***************************************************************************)
\* how many times the cleanup action a has been invoked, over all runs
Invocations(a) ==
    Cardinality(UNION { { <<r, i>> : i \in { j \in 1..Len(runs[r].log) :
                                              runs[r].log[j].a = a } } : r \in RunIds })

\* nothing of the session is suspended any more
Quiesced ==
    /\ \A h \in DOMAIN handlers : handlers[h].pc \in {"done", "failed"}
    /\ \A r \in RunIds : runs[r].st \in {"idle", "done"}

\* C4: every cleanup action the session registered is executed exactly once,
\* however the connection close interleaves with the signals and also when
\* actions are registered during a run: never more than once, and once the
\* session has quiesced after a cleanup, once.
C4_ExactlyOnce ==
    \A i \in 1..Len(connectionCleanupFns) :
        LET a == connectionCleanupFns[i]
        IN  /\ Invocations(a) <= 1
            /\ (Quiesced /\ (\E r \in RunIds : runs[r].st = "done")) => Invocations(a) = 1

\* C5 as stated: a cleanup run invokes the actions newest-first, in the exact
\* reverse of the order of their registration.
C5_NewestFirst ==
    \A r \in RunIds : \A i, j \in 1..Len(runs[r].log) :
        i < j => runs[r].log[i].a.n > runs[r].log[j].a.n

\* C5: a cleanup run during which nothing is registered invokes the actions in
\* the order of the list, front to back: first the installer kills, the newest
\* first, then the actions that were pushed in the order of their registration
\* (the worker dispose, then the removal of the temp dir).
C5_ListOrder ==
    \A r \in RunIds :
        (runs[r].st # "idle" /\ runs[r].given = connectionCleanupFns) =>
            LET log == runs[r].log
            IN  /\ Len(log) <= Len(connectionCleanupFns)
                /\ \A i \in 1..Len(log) : log[i].a = connectionCleanupFns[i]
                /\ runs[r].st = "done" => Len(log) = Len(connectionCleanupFns)
                /\ \A i, j \in 1..Len(log) : i < j =>
                      /\ log[j].a.kind = "kill" => log[i].a.kind = "kill"
                      /\ log[j].a.kind = "kill" => log[i].a.n > log[j].a.n
                      /\ log[i].a.kind # "kill" => log[i].a.n < log[j].a.n

\* a finished run invoked two kills, the dispose and the removal, in this order
C5_Witness ==
    \E r \in RunIds :
        /\ runs[r].st = "done" /\ runs[r].given = connectionCleanupFns
        /\ Len(runs[r].log) = 4
        /\ runs[r].log[1].a.kind = "kill" /\ runs[r].log[2].a.kind = "kill"
        /\ runs[r].log[3].a.kind = "dispose" /\ runs[r].log[4].a.kind = "rmTemp"

\* C6: a run of cleanupAll invokes every action of the list it is given,
\* whichever of them throw or reject: an action that fails never keeps a later
\* one from being invoked, and the run never raises.
C6_RunsEveryAction ==
    \A r \in RunIds :
        /\ ~runs[r].raised
        /\ runs[r].st = "done" =>
              \A i \in 1..Len(runs[r].given) :
                  \E j \in 1..Len(runs[r].log) : runs[r].log[j].a = runs[r].given[i]

\* a finished run in which an action failed and a later one was invoked
C6_Witness ==
    \E r \in RunIds :
        /\ runs[r].st = "done"
        /\ \E j \in 1..(Len(runs[r].log) - 1) : ~runs[r].log[j].ok

\* C7: no session leaks: whenever the connection closed, once the session has
\* quiesced its temp dir is gone and neither the worker nor an installer it
\* spawned is running (no cleanup action having failed).
C7_NoLeak ==
    (closed /\ Quiesced /\ failures = 0) =>
        /\ dirs = {}
        /\ ~workerRunning
        /\ \A h \in DOMAIN handlers : \A m \in DOMAIN handlers[h].tasks :
              handlers[h].tasks[m].st # "running"

(***************************************************************************)
(* Properties of the spans and of the install step.                        *)
(***************************************************************************)
\* C8 as stated: the entry of a request is removed from requestSpans only at
\* the moment the worker's response with its id passes through to the client.
C8_RemovedOnDelivery ==
    [][\A i \in requestSpans : i \notin requestSpans' =>
          /\ Len(toClient') = Len(toClient) + 1
          /\ Last(toClient').from = "worker"
          /\ Last(toClient').kind = "response"
          /\ Last(toClient').id = i]_vars

\* C8: requestSpans holds the id of every request forwarded to the worker
\* until the forward callback handles a worker response with that id; at that
\* moment the span is finished and the entry removed, whether or not the
\* response is then rewritten and reaches the client; nothing else removes it.
C8_RemovedOnResponse ==
    /\ [](Unanswered \subseteq requestSpans)
    /\ [][\A i \in requestSpans : i \notin requestSpans' =>
            /\ fromWorker' = Append(fromWorker, Last(fromWorker'))
            /\ Last(fromWorker').kind = "response"
            /\ Last(fromWorker').id = i
            /\ i \in finishedSpans']_vars
    /\ [][(Len(fromWorker') > Len(fromWorker) /\ Last(fromWorker').kind = "response")
            => Last(fromWorker').id \notin requestSpans']_vars

\* the span of a forwarded request was finished by a response that was dropped
C8_Witness ==
    \E i \in finishedSpans :
        /\ i \notin requestSpans
        /\ \E j \in 1..Len(toWorker) : toWorker[j].kind = "request" /\ toWorker[j].id = i
        /\ \A j \in 1..Len(toClient) : ~(toClient[j].from = "worker" /\ toClient[j].id = i)

\* the install of every manifest handler h found has succeeded or failed
InstallsSettled(h) ==
    \A m \in DOMAIN handlers[h].tasks : handlers[h].tasks[m].st \in {"ok", "failed"}

\* C10: the initialize request is written to the worker only after the install
\* task of every manifest has settled, not after the first; and once all have
\* settled it is written, whether they succeeded or failed, and no error
\* response is sent for it.
C10_AfterAllSettle ==
    \A h \in DOMAIN handlers :
        /\ Written(h) => InstallsSettled(h)
        /\ (handlers[h].tasks # <<>> /\ InstallsSettled(h)) =>
              /\ handlers[h].pc = "done"
              /\ Written(h)
              /\ \A i \in 1..Len(toClient) : ~IsErrorFor(toClient[i], handlers[h].msg.id)

\* the initialize request was forwarded after one install failed and one succeeded
C10_Witness ==
    \E h \in DOMAIN handlers :
        /\ Written(h)
        /\ \E m1, m2 \in DOMAIN handlers[h].tasks :
              handlers[h].tasks[m1].st = "failed" /\ handlers[h].tasks[m2].st = "ok"

(***************************************************************************)
(* Properties of the rewrite rules.                                        *)
(***************************************************************************)
IsPrefix(a, b) == Len(a) <= Len(b) /\ SubSeq(b, 1, Len(a)) = a

\* the address taken there and back lies in the domain of its rule: an archive
\* address whose fragment names a path inside the archive, or a file address
\* under the extraction root
InDomain ==
    IF probe.rule = "zip"
    THEN \A i \in 1..Len(probe.input.hash) : probe.input.hash[i] # ".."
    ELSE IsPrefix(fileRootUri[1].pathname, probe.input.pathname)

\* C9 as stated: the two rules are exact inverses on their domains: an archive
\* address, or a file address under the extraction root, taken through its rule
\* and then through the other one comes back as it was.
C9_ExactInverses ==
    (probe.stage = "out" /\ InDomain) => probe.out = probe.input

\* the segments that are in normal form: not empty, not "." or "..", and
\* percent-encoded exactly where the URL setters encode
NormalSegments == {"src", "a.ts", "@t", "a%20b"}

\* the address taken there and back is in normal form: each segment of its
\* fragment, or of its path below the extraction root, is; and a file address
\* has no fragment
NormalForm ==
    LET root == fileRootUri[1].pathname
        segs == IF probe.rule = "zip" THEN probe.input.hash
                ELSE SubSeq(probe.input.pathname, Len(root) + 1, Len(probe.input.pathname))
    IN  /\ \A i \in 1..Len(segs) : segs[i] \in NormalSegments
        /\ probe.rule = "file" =>
              IsPrefix(root, probe.input.pathname) /\ probe.input.hash = <<>>

\* C9: on addresses in normal form the two rules of an active session are
\* inverses: such an archive address A satisfies
\* transformFileToZipUri(transformZipToFileUri(A)) = A and such a file address
\* F under the extraction root satisfies
\* transformZipToFileUri(transformFileToZipUri(F)) = F.
C9_InversesOnNormalForm ==
    (probe.stage = "out" /\ NormalForm) => probe.out = probe.input

\* an archive address with a percent-encoded segment came back as it was
C9_Witness ==
    /\ probe.stage = "out" /\ probe.rule = "zip" /\ NormalForm
    /\ probe.input.hash = <<"src", "a%20b">>
    /\ ~IsThrow(probe.mid) /\ probe.mid.pathname = fileRootUri[1].pathname \o <<"src", "a%20b">>
    /\ probe.out = probe.input

(***************************************************************************)
(* Properties of the install folders.                                      *)
(***************************************************************************)
\* directory a is directory b or lies inside it
Inside(a, b) == Len(b) <= Len(a) /\ SubSeq(a, 1, Len(b)) = b

\* C11: for any two distinct manifests of a session, the cache folder of one
\* is neither the cache folder of the other nor inside it, and the same holds
\* of their global folders.
C11_PrivateFolders ==
    \A h \in DOMAIN handlers : \A m1, m2 \in DOMAIN handlers[h].tasks :
        (m1 # m2 /\ handlers[h].tasks[m1].yarn # <<>> /\ handlers[h].tasks[m2].yarn # <<>>) =>
            /\ ~Inside(handlers[h].tasks[m1].yarn[1].cacheFolder,
                       handlers[h].tasks[m2].yarn[1].cacheFolder)
            /\ ~Inside(handlers[h].tasks[m1].yarn[1].globalFolder,
                       handlers[h].tasks[m2].yarn[1].globalFolder)

(***************************************************************************)
(* Properties of the shutdown on a signal.                                 *)
(***************************************************************************)
\* C12: when a signal is received the cleanup list of the session, if it is
\* still active, is run to completion before the process exits: the process
\* never exits while a cleanup action of an active session has not been run.
C12_CleanedBeforeExit ==
    (exited /\ ~closed) =>
        /\ \E r \in SignalRuns : runs[r].st = "done"
        /\ \A i \in 1..Len(connectionCleanupFns) :
              Invocations(connectionCleanupFns[i]) >= 1

(***************************************************************************)
(* Properties of the forwarded initialize request.                         *)
(***************************************************************************)
\* the file URI of the extraction directory
ExtractionRoot ==
    [protocol |-> "file:", hostname |-> "", pathname |-> extractPath[1], hash |-> <<>>]

\* C13: every initialize request written to the worker carries as rootUri the
\* file URI of the session's extraction directory and a workspaceFolders list
\* of exactly one entry with that same uri, whatever workspaceFolders the
\* client sent; no http or https address remains in these fields.
C13_ForwardedParams ==
    /\ [][(Len(toWorker') > Len(toWorker) /\ Last(toWorker').method = "initialize") =>
            /\ extractPath # <<>>
            /\ Last(toWorker').rootUri = <<ExtractionRoot>>
            /\ Last(toWorker').folders = 1
            /\ Last(toWorker').uri = <<ExtractionRoot>>]_vars
    /\ [](\A i \in 1..Len(toWorker) : toWorker[i].method = "initialize" =>
            /\ toWorker[i].folders = 1
            /\ toWorker[i].rootUri # <<>> /\ toWorker[i].rootUri[1].protocol = "file:"
            /\ toWorker[i].uri # <<>> /\ toWorker[i].uri[1].protocol = "file:")

\* an initialize request was forwarded with the extraction directory as root
C13_Witness ==
    \E i \in 1..Len(toWorker) :
        /\ toWorker[i].method = "initialize"
        /\ zipRootUri # <<>> /\ zipRootUri[1].protocol \in {"http:", "https:"}
        /\ toWorker[i].rootUri = <<Url("file:", "", <<"cache", "d1", "repo">>, <<>>)>>

(***************************************************************************)
(* Properties of rewriteUris on whole messages.                            *)
(***************************************************************************)
RECURSIVE Blank(_)
\* the value with every property named uri emptied
Blank(node) ==
    IF node.t # "object" THEN node
    ELSE Object([i \in 1..Len(node.fields) |->
                    IF node.fields[i].k = "uri" THEN Field("uri", Leaf([blank |-> TRUE]))
                    ELSE Field(node.fields[i].k, Blank(node.fields[i].v))])

RECURSIVE Uris(_)
RECURSIVE UrisFrom(_, _)
\* the values of the properties named uri, in the order of a walk of the value
Uris(node) == IF node.t # "object" THEN <<>> ELSE UrisFrom(node, 1)

UrisFrom(node, i) ==
    IF i > Len(node.fields) THEN <<>>
    ELSE (IF node.fields[i].k = "uri" THEN <<node.fields[i].v>>
          ELSE Uris(node.fields[i].v)) \o UrisFrom(node, i + 1)

\* the address the rule of the direction dir makes of the string raw
Transformed(dir, raw) ==
    IF IsThrow(ParseUrl(raw)) THEN ParseUrl(raw)
    ELSE IF dir = "client" THEN TransformZipToFileUri(ParseUrl(raw))
    ELSE TransformFileToZipUri(ParseUrl(raw))

\* a message passed and every uri property of it holds the transformed address
UrisRewritten ==
    /\ Len(Uris(probe.out)) = Len(Uris(probe.input))
    /\ \A i \in 1..Len(Uris(probe.input)) :
          /\ Uris(probe.input)[i].t = "leaf"
          /\ Uris(probe.out)[i] = Leaf(Transformed(probe.dir, Uris(probe.input)[i].v))

Passed == probe.stage = "passed" /\ ~IsThrow(probe.out)

\* C14 as stated: a message that passes through the proxy in either direction
\* has every uri property transformed and every other property, and the set of
\* its properties, as before; this of the initialize request too.
C14_OnlyUrisChange ==
    /\ [](Passed => (UrisRewritten /\ Blank(probe.out) = Blank(probe.input)))
    /\ [][(Len(toWorker') > Len(toWorker) /\ Last(toWorker').method = "initialize") =>
            /\ Last(toWorker').rootUri = GoodRoot
            /\ Last(toWorker').uri = <<>>]_vars

\* C14: a message other than initialize that passes through the proxy in
\* either direction has every property named uri, at any depth, transformed
\* and every other property as before; the set of its properties is as before
\* but for _trace, which a traced response is given.  Of the initialize
\* request the proxy replaces rootUri and workspaceFolders and keeps the rest.
C14_FrameOfRewrite ==
    /\ [](Passed =>
            /\ UrisRewritten
            /\ Blank(probe.out) =
                 Blank(IF probe.traced
                       THEN Object(Append(probe.input.fields, TraceField))
                       ELSE probe.input))
    /\ [][\A h \in DOMAIN handlers :
            (Len(toWorker') > Len(toWorker) /\ Last(toWorker').seq = h) =>
                /\ Last(toWorker').kind = handlers[h].msg.kind
                /\ Last(toWorker').method = handlers[h].msg.method
                /\ Last(toWorker').id = handlers[h].msg.id]_vars

\* a worker message passed whose nested uri was rewritten while a URL in a
\* property of another name was left as it was
C14_Witness ==
    /\ Passed /\ probe.dir = "worker" /\ ~probe.traced
    /\ probe.input = Object(<<Field("text", Object(<<Field("uri", Leaf(FileAddress(<<"src", "a.ts">>, <<>>))),
                                                     Field("text", Leaf(FileAddress(<<"src", "a.ts">>, <<>>)))>>))>>)
    /\ probe.out = Object(<<Field("text", Object(<<Field("uri", Leaf(ArchiveAddress(<<"src", "a.ts">>))),
                                                   Field("text", Leaf(FileAddress(<<"src", "a.ts">>, <<>>)))>>))>>)

(***************************************************************************)
(* Properties of the installer kills.                                      *)
(***************************************************************************)
\* C15: in every cleanup run the kill of every installer the session has
\* spawned runs before the removal of the temp dir, also for an installer
\* spawned while the run is in progress: whenever a run invokes the removal,
\* it has invoked every kill registered by then.
C15_KillsBeforeRemoval ==
    [][\A r \in RunIds :
         \A j \in (Len(runs[r].log) + 1)..Len(runs'[r].log) :
            runs'[r].log[j].a.kind = "rmTemp" =>
               \A i \in 1..Len(connectionCleanupFns) :
                  connectionCleanupFns[i].kind = "kill" =>
                     \E k \in 1..(j - 1) : runs'[r].log[k].a = connectionCleanupFns[i]]_vars

(***************************************************************************)
(* Properties of the worker process.                                       *)
(***************************************************************************)
\* the worker process has been started: it runs, or it ran and was disposed of
WorkerStarted ==
    \/ workerRunning
    \/ \E r \in RunIds : \E j \in 1..Len(runs[r].log) :
          runs[r].log[j].a.kind = "dispose" /\ runs[r].log[j].ok

\* C16: in a session whose handshake fails, in the validation or in the
\* allocation of the temp dir, the download or the extraction, the worker
\* process is never started.
C16_NoWorkerOnFailure ==
    /\ [](\A h \in DOMAIN handlers : handlers[h].pc = "failed" => ~WorkerStarted)
    /\ [][\A msg \in InitializeMsgs(RootUris, Folders) :
            (BadParams(msg) /\ Receive(msg)) => ~WorkerStarted']_vars

(***************************************************************************)
(* Properties of the order of the handshake.                               *)
(***************************************************************************)
\* the session has completed a handshake: an initialize request was forwarded
HandshakeCompleted == \E h \in DOMAIN handlers : handlers[h].pc = "done"

\* C17: until the session has completed a handshake no client message other
\* than initialize is written to the worker: such a request is answered with
\* an error response and such a notification is not forwarded.
C17_InitializeFirst ==
    [][\A msg \in OtherMsgs :
         (~HandshakeCompleted /\ Receive(msg)) =>
            /\ toWorker' = toWorker
            /\ msg.kind = "request" =>
                  /\ Len(toClient') = Len(toClient) + 1
                  /\ IsErrorFor(Last(toClient'), msg.id)]_vars

(***************************************************************************)
(* Properties of repeated and of rejected initialize requests.             *)
(***************************************************************************)
\* C18: the materialization of the workspace is triggered at most once per
\* session, also when the client sends initialize more than once: at most one
\* handshake allocates a temp dir, downloads, extracts and installs, and the
\* archive root, once set, is not set again to another value.
C18_MaterializedOnce ==
    /\ [](Cardinality(DOMAIN handlers) <= 1)
    /\ [](Cardinality(dirs) <= 1)
    /\ [][zipRootUri # <<>> => zipRootUri' = zipRootUri]_vars

\* C20: an initialize request that the validation rejects leaves the session
\* as it was: zipRootUri is neither set nor changed, no temp dir is created
\* and no cleanup action is registered.
C20_RejectedChangesNothing ==
    [][\A msg \in InitializeMsgs(RootUris, Folders) :
         (BadParams(msg) /\ Receive(msg)) =>
            /\ zipRootUri' = zipRootUri
            /\ tempDir' = tempDir
            /\ dirs' = dirs
            /\ connectionCleanupFns' = connectionCleanupFns]_vars

(***************************************************************************)
(* Addresses outside the roots of the session.                             *)
(***************************************************************************)
\* the string raw is an address, and not one of the side the message is from:
\* for the client, its part before the fragment is not the archive root; for
\* the worker, it is not a file under the extraction root
Outside(dir, raw) ==
    LET u == ParseUrl(raw)
    IN  /\ ~IsThrow(u)
        /\ IF dir = "client"
           THEN <<u.protocol, u.hostname, u.pathname>> #
                  <<zipRootUri[1].protocol, zipRootUri[1].hostname, zipRootUri[1].pathname>>
           ELSE \/ u.protocol # "file:"
                \/ ~IsPrefix(fileRootUri[1].pathname, u.pathname)

\* C19: a message with a uri outside the roots of the session is not passed on
\* with a rewritten address: the callback fails instead.
C19_OutsideFails ==
    Passed => \A i \in 1..Len(Uris(probe.input)) :
                 Uris(probe.input)[i].t = "leaf" =>
                    ~Outside(probe.dir, Uris(probe.input)[i].v)

====
